---- MODULE Spec2Model ----
(***************************************************************************)
(* State-machine model of the dev-events data-access layer:                *)
(*   - the cached connection helper  (connectDB / disconnectDB),           *)
(*   - the Event schema's slug / date helpers and pre-save hook,           *)
(*   - the Booking schema's pre-save referential check.                    *)
(***************************************************************************)
EXTENDS Integers, Sequences, FiniteSets, TLC

(***************************************************************************)
(* Bounds of the model.                                                    *)
(***************************************************************************)
NCallers == 3      \* connectDB() invocations
NDisc == 2         \* disconnectDB() invocations
MaxTitleLen == 4   \* longest title given to generateSlug on its own
NEvents == 2       \* Event identifiers
NBookers == 1      \* Booking saves

VARIABLES
    uriSet,        \* MONGODB_URI, read once at module load
    conn,          \* cache.conn    : NoConn or a handle
    promise,       \* cache.promise : NoPromise or the attempt it stands for
    attempts,      \* the mongoose.connect(uri) calls made so far, in order
    open,          \* handles established and not yet closed
    closing,       \* handles on which disconnect() has been called
    cpc,           \* position of each connectDB() invocation
    cwait,         \* the attempt whose promise the invocation waits on
    cres,          \* what the invocation gave its caller
    dpc,           \* position of each disconnectDB() invocation
    dh             \* the handle a suspended disconnectDB() is closing

connVars == <<uriSet, conn, promise, attempts, open, closing, cpc, cwait, cres, dpc, dh>>

VARIABLES
    title,         \* the title handed to generateSlug
    slugOut,       \* what generateSlug returned
    spc            \* "in" before the call, "out" after it

slugVars == <<title, slugOut, spc>>

VARIABLES
    tzAhead,       \* the runtime's local time zone is ahead of UTC
    events,        \* the Event collection, by identifier
    used,          \* Event identifiers already given to a document
    doc,           \* the Event document being built or edited, not yet saved
    evOut,         \* how the last Event save ended
    bookings,      \* the Booking collection
    bpc,           \* position of each Booking save
    beid,          \* its eventId
    bemail,        \* its email
    bout           \* how it ended

storeVars == <<tzAhead, events, used, doc, evOut, bookings, bpc, beid, bemail, bout>>

vars == <<connVars, slugVars, storeVars>>

\* What each component's steps leave alone.
notConn == <<slugVars, storeVars>>
notSlug == <<connVars, storeVars>>
notStore == <<connVars, slugVars>>

(***************************************************************************)
(* Strings are sequences of characters; the characters below stand for the *)
(* classes the slug regexes tell apart: lower- and upper-case letters, a   *)
(* digit, the underscore, white space, the hyphen and punctuation.         *)
(***************************************************************************)
Alphabet == {"a", "b", "B", "7", "_", " ", "-", "!"}

Strings(n) == UNION {[1..k -> Alphabet] : k \in 0..n}

\* \s
IsSpace(ch) == ch = " "

\* \w, that is [A-Za-z0-9_]
IsWord(ch) == ch \in {"a", "b", "B", "7", "_"}

LowerChar(ch) == IF ch = "B" THEN "b" ELSE ch

\* The characters of s at the positions in K, in order.
SeqAt(s, K) ==
    LET F[i \in 0..Len(s)] ==
            IF i = 0 THEN <<>>
            ELSE IF i \in K THEN Append(F[i - 1], s[i]) ELSE F[i - 1]
    IN  F[Len(s)]

\* s without its leading and trailing characters from the set edge.
StripEdges(s, edge) ==
    LET inner == {i \in 1..Len(s) : s[i] \notin edge}
    IN  IF inner = {} THEN <<>>
        ELSE LET first == CHOOSE i \in inner : \A j \in inner : i <= j
                 last == CHOOSE i \in inner : \A j \in inner : j <= i
             IN  SubSeq(s, first, last)

\* String.prototype.toLowerCase
ToLowerCase(s) == [i \in 1..Len(s) |-> LowerChar(s[i])]

\* String.prototype.trim
Trim(s) == StripEdges(s, {ch \in Alphabet : IsSpace(ch)})

\* .replace(/[^\w\s-]/g, "")
RemoveSpecial(s) ==
    SeqAt(s, {i \in 1..Len(s) : IsWord(s[i]) \/ IsSpace(s[i]) \/ s[i] = "-"})

\* .replace(/\s+/g, "-")
SpacesToHyphen(s) ==
    LET t == [i \in 1..Len(s) |-> IF IsSpace(s[i]) THEN "-" ELSE s[i]]
    IN  SeqAt(t, {i \in 1..Len(s) : ~IsSpace(s[i]) \/ i = 1 \/ ~IsSpace(s[i - 1])})

\* .replace(/-+/g, "-")
CollapseHyphens(s) ==
    SeqAt(s, {i \in 1..Len(s) : s[i] # "-" \/ i = 1 \/ s[i - 1] # "-"})

StripHyphens_None(s) == s

\* .replace(/^-+|-+$/g, "")
StripHyphens(s) == StripEdges(s, {"-"})

generateSlug(t) ==
    StripHyphens(CollapseHyphens(SpacesToHyphen(RemoveSpecial(Trim(ToLowerCase(t))))))

SlugStart ==
    /\ title = <<>>
    /\ slugOut = <<>>
    /\ spc = "in"

InitSlugVars ==
    /\ title \in Strings(MaxTitleLen)
    /\ slugOut = <<>>
    /\ spc = "in"

\* One call of generateSlug on the title.
ApplySlug ==
    /\ spc = "in"
    /\ slugOut' = generateSlug(title)
    /\ spc' = "out"
    /\ UNCHANGED title
    /\ UNCHANGED notSlug

(***************************************************************************)
(* Date strings.  A date string is told apart by its shape: "iso" is       *)
(* dddd-dd-dd (what /^\d{4}-\d{2}-\d{2}$/ accepts, whatever the digits),   *)
(* "us" is m/d/yyyy (a form the runtime's lenient parser reads, in local   *)
(* time), "text" is anything the parser rejects.                           *)
(***************************************************************************)
NoDate == [fmt |-> "none", y |-> 0, m |-> 0, d |-> 0]

IsoDate(y, m, d) == [fmt |-> "iso", y |-> y, m |-> m, d |-> d]

DateInputs ==
    { IsoDate(2025, 3, 5),                         \* "2025-03-05"
      IsoDate(2025, 2, 30),                        \* "2025-02-30"
      IsoDate(2025, 13, 5),                        \* "2025-13-05"
      [fmt |-> "us", y |-> 2025, m |-> 1, d |-> 1],  \* "1/1/2025"
      [fmt |-> "text", y |-> 0, m |-> 0, d |-> 0] }  \* "not-a-date"

DaysIn(y, m) ==
    IF m = 2 THEN (IF y % 4 = 0 THEN 29 ELSE 28)
    ELSE IF m \in {4, 6, 9, 11} THEN 30 ELSE 31

\* new Date(s): the parser takes months 1..12 and days 1..31; a day past the
\* end of its month rolls into the next month.
ParseOk(s) == s.fmt \in {"iso", "us"} /\ s.m \in 1..12 /\ s.d \in 1..31

RollOver(y, m, d) ==
    IF d <= DaysIn(y, m) THEN <<y, m, d>>
    ELSE IF m = 12 THEN <<y + 1, 1, d - DaysIn(y, m)>>
    ELSE <<y, m + 1, d - DaysIn(y, m)>>

PrevDay(t) ==
    IF t[3] > 1 THEN <<t[1], t[2], t[3] - 1>>
    ELSE IF t[2] > 1 THEN <<t[1], t[2] - 1, DaysIn(t[1], t[2] - 1)>>
    ELSE <<t[1] - 1, 12, 31>>

\* dateObj.toISOString().split("T")[0]: the UTC day of the parsed instant.  A
\* date-only ISO string is read as UTC midnight; any other form as local
\* midnight, which is the previous UTC day where local time is ahead of UTC.
UtcDay(s) ==
    LET t == RollOver(s.y, s.m, s.d)
    IN  IF s.fmt = "us" /\ tzAhead THEN PrevDay(t) ELSE t

\* isoDateRegex.test
IsIsoShape(s) == s.fmt = "iso"

normalizeDate(s) ==
    IF ParseOk(s)
      THEN [ok |-> TRUE, value |-> IsoDate(UtcDay(s)[1], UtcDay(s)[2], UtcDay(s)[3])]
      ELSE IF IsIsoShape(s)
      THEN [ok |-> TRUE, value |-> s]
      ELSE [ok |-> FALSE, value |-> s]

\* The date field's validator.
DateValid(s) == IsIsoShape(s) /\ ParseOk(s)

\* The title field: required, and its validator.
TitleValid(t) == Len(t) > 0 /\ Len(Trim(t)) > 0

(***************************************************************************)
(* Event documents                                                         *)
(***************************************************************************)
EventIds == 1..NEvents
Bookers == 1..NBookers

TitleInputs ==
    { <<"a", " ", "B">>,        \* "a B"
      <<"a", "-", "b", " ">>,   \* "a-b "
      <<"7">>,                  \* "7"
      <<" ">> }                 \* " "

SlugInputs == { <<"B", " ">> }  \* "B "

\* Titles of the Events that Bookings are made for.
BookedTitles == { <<"a", " ", "B">>, <<"7">> }

Fields == {"title", "slug", "date"}

AbsentEvent == [present |-> FALSE, title |-> <<>>, slug |-> <<>>, date |-> NoDate]

NoDoc == [id |-> 0, isNew |-> FALSE, title |-> <<>>, slug |-> <<>>, date |-> NoDate,
          mod |-> {}]

NoOutcome == [kind |-> "none", paths |-> {}, id |-> 0]

Outcome(k, id) == [kind |-> k, paths |-> {}, id |-> id]

\* The schema's setters: title is trimmed, slug is lower-cased and trimmed.
TitleSetter(t) == Trim(t)
SlugSetter(s) == Trim(ToLowerCase(s))

StoreStart ==
    /\ tzAhead = FALSE
    /\ events = [e \in EventIds |-> AbsentEvent]
    /\ used = {}
    /\ doc = NoDoc
    /\ evOut = NoOutcome
    /\ bookings = {}
    /\ bpc = [b \in Bookers |-> "idle"]
    /\ beid = [b \in Bookers |-> 0]
    /\ bemail = [b \in Bookers |-> "none"]
    /\ bout = [b \in Bookers |-> NoOutcome]

InitStoreVars ==
    /\ tzAhead \in BOOLEAN
    /\ events = [e \in EventIds |-> AbsentEvent]
    /\ used = {}
    /\ doc = NoDoc
    /\ evOut = NoOutcome
    /\ bookings = {}
    /\ bpc = [b \in Bookers |-> "idle"]
    /\ beid = [b \in Bookers |-> 0]
    /\ bemail = [b \in Bookers |-> "none"]
    /\ bout = [b \in Bookers |-> NoOutcome]

bookingVars == <<bookings, bpc, beid, bemail, bout>>

\* new Event({ title, date, slug? }): a document with a fresh identifier; every
\* path given is modified.
NewEvent(id, t, withSlug, s, d) ==
    /\ doc = NoDoc
    /\ id \notin used
    /\ used' = used \cup {id}
    /\ doc' = [id |-> id, isNew |-> TRUE, title |-> TitleSetter(t),
               slug |-> IF withSlug THEN SlugSetter(s) ELSE <<>>,
               date |-> d,
               mod |-> IF withSlug THEN Fields ELSE {"title", "date"}]
    /\ UNCHANGED <<tzAhead, events, evOut, bookingVars>>
    /\ UNCHANGED notStore

\* A stored Event is loaded and the paths in F are assigned; a path is
\* modified when the value assigned differs from the one loaded.
EditEvent(id, F, t, s, d) ==
    /\ doc = NoDoc
    /\ events[id].present
    /\ LET cur == events[id]
           nt == IF "title" \in F THEN TitleSetter(t) ELSE cur.title
           ns == IF "slug" \in F THEN SlugSetter(s) ELSE cur.slug
           nd == IF "date" \in F THEN d ELSE cur.date
       IN  doc' = [id |-> id, isNew |-> FALSE, title |-> nt, slug |-> ns, date |-> nd,
                   mod |-> {f \in F : \/ f = "title" /\ nt # cur.title
                                      \/ f = "slug" /\ ns # cur.slug
                                      \/ f = "date" /\ nd # cur.date}]
    /\ UNCHANGED <<tzAhead, events, used, evOut, bookingVars>>
    /\ UNCHANGED notStore

\* Validation runs as the first pre-save step, registered when the schema is
\* built, ahead of the hook the module adds afterwards: a new document has
\* all its paths validated, a loaded one its modified paths.
FailingPaths(d) ==
    LET checked == IF d.isNew THEN Fields ELSE d.mod
    IN  {f \in checked : \/ f = "title" /\ ~TitleValid(d.title)
                         \/ f = "date" /\ ~DateValid(d.date)}

\* this.isModified("title") || this.isNew
SlugStale(d) == "title" \in d.mod \/ d.isNew

\* The pre-save hook: the document after it, or the error it passes to next.
PreSaveEvent(d) ==
    LET slug1 == IF SlugStale(d) THEN SlugSetter(generateSlug(d.title)) ELSE d.slug
        nd == IF "date" \in d.mod THEN normalizeDate(d.date)
              ELSE [ok |-> TRUE, value |-> d.date]
    IN  [ok |-> nd.ok, doc |-> [d EXCEPT !.slug = slug1, !.date = nd.value]]

\* The unique index on slug.
DuplicateSlug(id, s) == \E o \in EventIds : o # id /\ events[o].present /\ events[o].slug = s

\* doc.save()
SaveEvent ==
    /\ doc # NoDoc
    /\ doc' = NoDoc
    /\ IF FailingPaths(doc) # {}
         THEN /\ evOut' = [kind |-> "validation", paths |-> FailingPaths(doc), id |-> doc.id]
              /\ UNCHANGED events
         ELSE LET h == PreSaveEvent(doc) IN
              IF ~h.ok
                THEN /\ evOut' = Outcome("normalization", doc.id)
                     /\ UNCHANGED events
              ELSE IF ~doc.isNew /\ ~events[doc.id].present
                THEN /\ evOut' = Outcome("notFound", doc.id)
                     /\ UNCHANGED events
              ELSE IF DuplicateSlug(doc.id, h.doc.slug)
                THEN /\ evOut' = Outcome("duplicate", doc.id)
                     /\ UNCHANGED events
              ELSE /\ evOut' = Outcome("ok", doc.id)
                   /\ events' = [events EXCEPT ![doc.id] =
                                   [present |-> TRUE, title |-> h.doc.title,
                                    slug |-> h.doc.slug, date |-> h.doc.date]]
    /\ UNCHANGED <<tzAhead, used, bookingVars>>
    /\ UNCHANGED notStore

\* Event.deleteOne({ _id: id })
DeleteEvent(id) ==
    /\ events[id].present
    /\ events' = [events EXCEPT ![id] = AbsentEvent]
    /\ UNCHANGED <<tzAhead, used, doc, evOut, bookingVars>>
    /\ UNCHANGED notStore

(***************************************************************************)
(* Booking documents                                                       *)
(***************************************************************************)
EmailInputs == {"user@example.com", "not-an-email"}

\* emailRegex.test
EmailValid(e) == e = "user@example.com"

LookupFound_Always(id) == TRUE

\* await Event.findById(this.eventId)
LookupFound(id) == events[id].present

PreSaveBooking_Skip(found) == "next"

\* if (!event) return next(new Error(...)); next();
PreSaveBooking(found) == IF ~found THEN "notFound" ELSE "next"

\* booking.save(): validation, then the pre-save hook up to its await.
BookingSave(b, id, e) ==
    /\ bpc[b] = "idle"
    /\ beid' = [beid EXCEPT ![b] = id]
    /\ bemail' = [bemail EXCEPT ![b] = e]
    /\ IF EmailValid(e)
         THEN /\ bpc' = [bpc EXCEPT ![b] = "lookup"]
              /\ UNCHANGED bout
         ELSE /\ bpc' = [bpc EXCEPT ![b] = "done"]
              /\ bout' = [bout EXCEPT ![b] =
                            [kind |-> "validation", paths |-> {"email"}, id |-> id]]
    /\ UNCHANGED <<tzAhead, events, used, doc, evOut, bookings>>
    /\ UNCHANGED notStore

\* The lookup resolves and the hook goes on.
BookingLookup(b) ==
    /\ bpc[b] = "lookup"
    /\ IF PreSaveBooking(LookupFound(beid[b])) = "notFound"
         THEN /\ bpc' = [bpc EXCEPT ![b] = "done"]
              /\ bout' = [bout EXCEPT ![b] = Outcome("notFound", beid[b])]
         ELSE /\ bpc' = [bpc EXCEPT ![b] = "write"]
              /\ UNCHANGED bout
    /\ UNCHANGED <<tzAhead, events, used, doc, evOut, bookings, beid, bemail>>
    /\ UNCHANGED notStore

\* The lookup itself fails: the hook passes the error on.
BookingLookupError(b) ==
    /\ bpc[b] = "lookup"
    /\ bpc' = [bpc EXCEPT ![b] = "done"]
    /\ bout' = [bout EXCEPT ![b] = Outcome("infrastructure", beid[b])]
    /\ UNCHANGED <<tzAhead, events, used, doc, evOut, bookings, beid, bemail>>
    /\ UNCHANGED notStore

\* The document is inserted.
BookingWrite(b) ==
    /\ bpc[b] = "write"
    /\ bookings' = bookings \cup {[by |-> b, eventId |-> beid[b], email |-> bemail[b]]}
    /\ bpc' = [bpc EXCEPT ![b] = "done"]
    /\ bout' = [bout EXCEPT ![b] = Outcome("ok", beid[b])]
    /\ UNCHANGED <<tzAhead, events, used, doc, evOut, beid, bemail>>
    /\ UNCHANGED notStore

(***************************************************************************)
(* Connection manager                                                      *)
(***************************************************************************)
Callers == 1..NCallers
Discs == 1..NDisc

NoConn == 0
NoPromise == 0
NoResult == [kind |-> "none", att |-> 0]

\* getMongooseCache(): the cache starts as { conn: null, promise: null }.
ConnStart ==
    /\ conn = NoConn
    /\ promise = NoPromise
    /\ attempts = <<>>
    /\ open = {}
    /\ closing = {}
    /\ cpc = [c \in Callers |-> "idle"]
    /\ cwait = [c \in Callers |-> 0]
    /\ cres = [c \in Callers |-> NoResult]
    /\ dpc = [d \in Discs |-> "idle"]
    /\ dh = [d \in Discs |-> NoConn]

Pending == {a \in DOMAIN attempts : attempts[a].state = "pending"}

\* Nothing of an earlier connection is still under way: the cache is empty,
\* no attempt is in flight, no disconnectDB() is suspended at its await and no
\* connectDB() that started an attempt is still waiting for it.
Quiet ==
    /\ conn = NoConn
    /\ promise = NoPromise
    /\ Pending = {}
    /\ \A d \in Discs : dpc[d] # "closing"
    /\ \A c \in Callers : cpc[c] # "awaiting"

\* Continuations of settled promises are microtasks: they all run before the
\* event loop delivers the next I/O completion.
MicrotasksDrained ==
    \A c \in Callers :
        cpc[c] \in {"awaiting", "joined"} => attempts[cwait[c]].state = "pending"

HasConn == conn # NoConn

HasPending_Never == FALSE

\* if (cache.promise)
HasPending == promise # NoPromise

CatchPromise_Kept == promise

\* catch: cache.promise = null
CatchPromise == NoPromise

\* `return cache.promise` sits outside the try block: a rejection reaches the
\* caller as the driver's own error.
JoinFailure == "raw"

\* connectDB(), from its entry to its first suspension or return.  Each
\* attempt keeps a record of whether it began with nothing under way (quiet).
ConnectDB(c) ==
    /\ cpc[c] = "idle"
    /\ IF HasConn
         THEN /\ cpc' = [cpc EXCEPT ![c] = "done"]
              /\ cres' = [cres EXCEPT ![c] = [kind |-> "handle", att |-> conn]]
              /\ UNCHANGED <<promise, attempts, cwait>>
         ELSE IF HasPending
         THEN /\ cpc' = [cpc EXCEPT ![c] = "joined"]
              /\ cwait' = [cwait EXCEPT ![c] = promise]
              /\ UNCHANGED <<promise, attempts, cres>>
         ELSE IF ~uriSet
         THEN /\ cpc' = [cpc EXCEPT ![c] = "done"]
              /\ cres' = [cres EXCEPT ![c] = [kind |-> "config", att |-> 0]]
              /\ UNCHANGED <<promise, attempts, cwait>>
         ELSE /\ attempts' = Append(attempts, [state |-> "pending", quiet |-> Quiet])
              /\ promise' = Len(attempts) + 1
              /\ cpc' = [cpc EXCEPT ![c] = "awaiting"]
              /\ cwait' = [cwait EXCEPT ![c] = Len(attempts) + 1]
              /\ UNCHANGED cres
    /\ UNCHANGED <<uriSet, conn, open, closing, dpc, dh>>
    /\ UNCHANGED notConn

\* mongoose.connect(uri) resolves; the .then callback caches the instance.
AttemptSucceed(a) ==
    /\ a \in Pending
    /\ MicrotasksDrained
    /\ attempts' = [attempts EXCEPT ![a].state = "resolved"]
    /\ conn' = a
    /\ open' = open \cup {a}
    /\ UNCHANGED <<uriSet, promise, closing, cpc, cwait, cres, dpc, dh>>
    /\ UNCHANGED notConn

\* mongoose.connect(uri) rejects; the derived promise rejects with it.
AttemptFail(a) ==
    /\ a \in Pending
    /\ MicrotasksDrained
    /\ attempts' = [attempts EXCEPT ![a].state = "rejected"]
    /\ UNCHANGED <<uriSet, conn, promise, open, closing, cpc, cwait, cres, dpc, dh>>
    /\ UNCHANGED notConn

\* The invocation that started the attempt resumes after `await cache.promise`.
ConnectReturn(c) ==
    /\ cpc[c] = "awaiting"
    /\ attempts[cwait[c]].state = "resolved"
    /\ cpc' = [cpc EXCEPT ![c] = "done"]
    /\ cres' = [cres EXCEPT ![c] = [kind |-> "handle", att |-> cwait[c]]]
    /\ UNCHANGED <<uriSet, conn, promise, attempts, open, closing, cwait, dpc, dh>>
    /\ UNCHANGED notConn

\* The invocation that started the attempt lands in its catch block.
ConnectCatch(c) ==
    /\ cpc[c] = "awaiting"
    /\ attempts[cwait[c]].state = "rejected"
    /\ promise' = CatchPromise
    /\ cpc' = [cpc EXCEPT ![c] = "done"]
    /\ cres' = [cres EXCEPT ![c] = [kind |-> "wrapped", att |-> cwait[c]]]
    /\ UNCHANGED <<uriSet, conn, attempts, open, closing, cwait, dpc, dh>>
    /\ UNCHANGED notConn

\* An invocation that returned cache.promise settles with that promise.
JoinSettle(c) ==
    /\ cpc[c] = "joined"
    /\ attempts[cwait[c]].state # "pending"
    /\ cpc' = [cpc EXCEPT ![c] = "done"]
    /\ cres' = [cres EXCEPT ![c] =
                  IF attempts[cwait[c]].state = "resolved"
                    THEN [kind |-> "handle", att |-> cwait[c]]
                    ELSE [kind |-> JoinFailure, att |-> cwait[c]]]
    /\ UNCHANGED <<uriSet, conn, promise, attempts, open, closing, cwait, dpc, dh>>
    /\ UNCHANGED notConn

\* disconnectDB(), up to `await cache.conn.disconnect()`.
DisconnectDB(d) ==
    /\ dpc[d] = "idle"
    /\ IF HasConn
         THEN /\ dpc' = [dpc EXCEPT ![d] = "closing"]
              /\ dh' = [dh EXCEPT ![d] = conn]
              /\ closing' = closing \cup {conn}
         ELSE /\ dpc' = [dpc EXCEPT ![d] = "done"]
              /\ UNCHANGED <<dh, closing>>
    /\ UNCHANGED <<uriSet, conn, promise, attempts, open, cpc, cwait, cres>>
    /\ UNCHANGED notConn

\* disconnectDB() resumes after the await and clears both cache fields.
DisconnectDone(d) ==
    /\ dpc[d] = "closing"
    /\ MicrotasksDrained
    /\ open' = open \ {dh[d]}
    /\ conn' = NoConn
    /\ promise' = NoPromise
    /\ dpc' = [dpc EXCEPT ![d] = "done"]
    /\ UNCHANGED <<uriSet, attempts, closing, cpc, cwait, cres, dh>>
    /\ UNCHANGED notConn

NextConn ==
    \/ \E c \in Callers : ConnectDB(c)
    \/ \E a \in DOMAIN attempts : AttemptSucceed(a)
    \/ \E a \in DOMAIN attempts : AttemptFail(a)
    \/ \E c \in Callers : ConnectReturn(c)
    \/ \E c \in Callers : ConnectCatch(c)
    \/ \E c \in Callers : JoinSettle(c)
    \/ \E d \in Discs : DisconnectDB(d)
    \/ \E d \in Discs : DisconnectDone(d)

(***************************************************************************)
(* Specifications                                                          *)
(***************************************************************************)
InitConn ==
    /\ uriSet \in BOOLEAN
    /\ ConnStart
    /\ SlugStart
    /\ StoreStart

SpecConn == InitConn /\ [][NextConn]_vars

InitSlug ==
    /\ uriSet = TRUE
    /\ ConnStart
    /\ InitSlugVars
    /\ StoreStart

NextSlug == ApplySlug

SpecSlug == InitSlug /\ [][NextSlug]_vars

InitEvent ==
    /\ uriSet = TRUE
    /\ ConnStart
    /\ SlugStart
    /\ InitStoreVars

\* Event documents are built or edited, saved and deleted.
NextEvent ==
    \/ \E id \in EventIds, t \in TitleInputs, w \in BOOLEAN, s \in SlugInputs, d \in DateInputs :
           NewEvent(id, t, w, s, d)
    \/ \E id \in EventIds, F \in (SUBSET Fields) \ {{}}, t \in TitleInputs, s \in SlugInputs,
           d \in DateInputs :
           EditEvent(id, F, t, s, d)
    \/ SaveEvent
    \/ \E id \in EventIds : DeleteEvent(id)

SpecEvent == InitEvent /\ [][NextEvent]_vars

InitBooking ==
    /\ uriSet = TRUE
    /\ ConnStart
    /\ SlugStart
    /\ StoreStart

\* Bookings are saved while Events are created and deleted.
NextBooking ==
    \/ \E id \in EventIds, t \in BookedTitles : NewEvent(id, t, FALSE, <<>>, IsoDate(2025, 3, 5))
    \/ SaveEvent
    \/ \E id \in EventIds : DeleteEvent(id)
    \/ \E b \in Bookers, id \in EventIds, e \in EmailInputs : BookingSave(b, id, e)
    \/ \E b \in Bookers : BookingLookup(b)
    \/ \E b \in Bookers : BookingLookupError(b)
    \/ \E b \in Bookers : BookingWrite(b)

SpecBooking == InitBooking /\ [][NextBooking]_vars

(***************************************************************************)
(* Claims about the Booking and Event documents and the slug               *)
(***************************************************************************)
BookingsBy(b) == {k \in bookings : k.by = b}

\* C5: a Booking save whose lookup finds no Event with its eventId (the lookup
\* itself not failing) ends with a reference-not-found error naming that
\* identifier, and the set of persisted Bookings is left unchanged, then and
\* afterwards.
C5_MissingEventRejected ==
    [][ \A b \in Bookers :
           /\ (bpc[b] = "lookup" /\ bpc'[b] # "lookup"
                 /\ ~events[beid[b]].present /\ bout'[b].kind # "infrastructure") =>
                  /\ bpc'[b] = "done"
                  /\ bout'[b] = Outcome("notFound", beid[b])
                  /\ bookings' = bookings
           /\ bout[b].kind = "notFound" =>
                  /\ bout'[b] = bout[b]
                  /\ BookingsBy(b) = {}
                  /\ BookingsBy(b)' = {}
      ]_vars

\* A save was refused for a missing Event while the other Event exists.
C5_Witness ==
    \E b \in Bookers :
        /\ bpc[b] = "done"
        /\ bout[b] = Outcome("notFound", beid[b])
        /\ ~events[beid[b]].present
        /\ \E o \in EventIds : events[o].present
        /\ BookingsBy(b) = {}

\* C6: at the step where a Booking record is written to the store, the Event
\* it references is present in the Event store.
C6_EventPresentAtWrite ==
    [][ \A b \in Bookers :
           (bpc[b] = "write" /\ bpc'[b] = "done" /\ bookings' # bookings)
               => events[beid[b]].present
      ]_vars

\* C6, amended: a Booking record is written only by a save whose pre-save
\* lookup found its Event present at the step of the lookup; the write is a
\* later step, and every persisted Booking is such a save's.
C6_EventPresentAtLookup ==
    [][ /\ \A b \in Bookers :
               (bpc[b] = "lookup" /\ bpc'[b] = "write") => events[beid[b]].present
        /\ \A b \in Bookers :
               bpc'[b] = "write" => bpc[b] \in {"lookup", "write"}
        /\ bookings' # bookings =>
               \E b \in Bookers :
                   /\ bpc[b] = "write"
                   /\ bpc'[b] = "done"
                   /\ bookings' = bookings \cup
                          {[by |-> b, eventId |-> beid[b], email |-> bemail[b]]}
      ]_vars

\* A save is past its lookup, about to write, and its Event has been deleted.
C6_Witness ==
    \E b \in Bookers :
        /\ bpc[b] = "write"
        /\ ~events[beid[b]].present
        /\ beid[b] \in used

\* C7: every persisted Event's slug equals the slug derivation applied to its
\* current title.
C7_SlugDerivedFromTitle ==
    \A id \in EventIds :
        events[id].present => events[id].slug = generateSlug(events[id].title)

Chars(s) == {s[i] : i \in DOMAIN s}

SlugShape(s, allowed) ==
    /\ \A i \in DOMAIN s : LowerChar(s[i]) = s[i]
    /\ Chars(s) \subseteq allowed
    /\ s # <<>> => s[1] # "-" /\ s[Len(s)] # "-"
    /\ \A i \in 1..(Len(s) - 1) : ~(s[i] = "-" /\ s[i + 1] = "-")

\* C8: generateSlug(T) is lowercase, contains no characters outside [a-z0-9-],
\* has no leading or trailing hyphen and no two consecutive hyphens.
C8_SlugShape == spc = "out" => SlugShape(slugOut, {"a", "b", "7", "-"})

\* C8, amended: generateSlug(T) is lowercase, contains no characters outside
\* [a-z0-9_-] (the underscore is a word character and is kept), has no leading
\* or trailing hyphen and no two consecutive hyphens.
C8_SlugShapeWithUnderscore == spc = "out" => SlugShape(slugOut, {"a", "b", "7", "-", "_"})

\* A title with an upper-case letter, white space and an underscore has been
\* turned into a slug that keeps the underscore.
C8_Witness ==
    /\ spc = "out"
    /\ {"B", " ", "_"} \subseteq Chars(title)
    /\ {"b", "-", "_"} \subseteq Chars(slugOut)

\* C9: a save in which date is modified persists the Event with the date
\* rewritten to YYYY-MM-DD whenever the supplied string parses as a calendar
\* date (unless the save fails over something other than the date); when the
\* string neither parses nor has the shape YYYY-MM-DD, the save fails over the
\* date's format and nothing is persisted.
C9_DateNormalizedThenJudged ==
    [][ (doc # NoDoc /\ doc' = NoDoc /\ "date" \in doc.mod) =>
           /\ ParseOk(doc.date) =>
                  \/ /\ evOut'.kind = "ok"
                     /\ events'[doc.id].date = normalizeDate(doc.date).value
                     /\ IsIsoShape(events'[doc.id].date)
                  \/ evOut'.kind \in {"duplicate", "notFound"}
                  \/ evOut'.kind = "validation" /\ "date" \notin evOut'.paths
           /\ (~ParseOk(doc.date) /\ ~IsIsoShape(doc.date)) =>
                  /\ \/ evOut'.kind = "normalization"
                     \/ evOut'.kind = "validation" /\ "date" \in evOut'.paths
                  /\ events' = events
      ]_vars

(***************************************************************************)
(* Claims about the connection manager                                     *)
(***************************************************************************)
WaitersOf(a) == {c \in Callers : cwait[c] = a}

\* C1: from an empty cache with nothing of an earlier connection under way,
\* the connectDB() calls issued before the attempt settles cause exactly one
\* mongoose.connect attempt (the attempt stays the only one in flight and the
\* latest one started, and the cache keeps pointing at it), and once it has
\* succeeded every caller that waited on it receives its handle.
C1_SingleAttemptSharedHandle ==
    \A a \in DOMAIN attempts :
        attempts[a].quiet =>
            /\ attempts[a].state = "pending" =>
                   /\ Pending = {a}
                   /\ a = Len(attempts)
                   /\ promise = a
                   /\ conn = NoConn
            /\ attempts[a].state = "resolved" =>
                   \A c \in WaitersOf(a) :
                       cpc[c] = "done" => cres[c] = [kind |-> "handle", att |-> a]

\* Two callers of one attempt started from an empty cache hold its handle.
C1_Witness ==
    \E a \in DOMAIN attempts :
        /\ attempts[a].quiet
        /\ attempts[a].state = "resolved"
        /\ \E c1, c2 \in WaitersOf(a) :
               /\ c1 # c2
               /\ cpc[c1] = "done" /\ cpc[c2] = "done"
               /\ cres[c1] = cres[c2]
               /\ cres[c1].kind = "handle"

\* C2: in every reachable state at most one connection-establishment attempt
\* is in flight, under any interleaving of connectDB() and disconnectDB().
C2_AtMostOneInFlight == Cardinality(Pending) <= 1

\* The step in which caller c leaves the catch block of a failed attempt.
CatchStep(c) ==
    /\ cpc[c] = "awaiting"
    /\ attempts[cwait[c]].state = "rejected"
    /\ cpc'[c] = "done"

\* C3: when a connection attempt fails, the catch block clears the pending
\* marker, leaves the handle as it was and starts nothing itself; a
\* connectDB() call that then finds the cache empty (a configured connection
\* string given) begins a fresh attempt, and only a connectDB() call ever
\* begins one.
C3_FailureNotCached ==
    [][ /\ \A c \in Callers :
               CatchStep(c) =>
                   /\ promise' = NoPromise
                   /\ conn' = conn
                   /\ attempts' = attempts
        /\ \A c \in Callers :
               (cpc[c] = "idle" /\ cpc'[c] # "idle"
                  /\ conn = NoConn /\ promise = NoPromise /\ uriSet) =>
                   /\ Len(attempts') = Len(attempts) + 1
                   /\ attempts'[Len(attempts')].state = "pending"
                   /\ promise' = Len(attempts')
                   /\ cwait'[c] = Len(attempts')
        /\ Len(attempts') > Len(attempts) =>
               \E c \in Callers : cpc[c] = "idle" /\ cpc'[c] = "awaiting"
      ]_vars

\* A caller got the wrapped failure of an attempt and a later call has begun
\* the next attempt.
C3_Witness ==
    \E c1, c2 \in Callers :
        /\ cpc[c1] = "done"
        /\ cres[c1].kind = "wrapped"
        /\ cpc[c2] = "awaiting"
        /\ cwait[c2] = cres[c1].att + 1
        /\ attempts[cwait[c2]].state = "pending"
        /\ promise = cwait[c2]

\* C4: every connectDB() caller of a failed attempt, the one that started it
\* and those that joined it, receives the same wrapped connection-failure
\* error.
C4_SharedWrappedError ==
    \A c \in Callers :
        (cpc[c] = "done" /\ cwait[c] # 0 /\ attempts[cwait[c]].state = "rejected")
            => cres[c].kind = "wrapped"

\* C10: a connectDB() call that returns successfully never returns a handle on
\* which disconnectDB() has begun or completed closing, and whenever the cache
\* holds neither a handle nor a pending attempt no established connection is
\* left open.
C10_NoStaleHandleNoOrphan ==
    [][ /\ \A c \in Callers :
               (cpc[c] # "done" /\ cpc'[c] = "done" /\ cres'[c].kind = "handle")
                   => cres'[c].att \notin closing
        /\ (conn' = NoConn /\ promise' = NoPromise) => open' = {}
      ]_vars

====
